---- MODULE Spec2Model ----
(***************************************************************************)
(* stateful_decoder.py: one run of the script, from argument parsing to    *)
(* the write of the features_hat file.                                     *)
(*                                                                         *)
(* Floats are records [nan, v]; v counts units of 1e-4, so that 0.01 is    *)
(* 100 and the "5.3f" format of the loss line rounds to units of 1e-3.     *)
(* A tensor of shape (1, T, C) is a sequence of T frames, each a sequence  *)
(* of C elements; an element is a triple naming where the number comes     *)
(* from (<<"in", i, 0>>: the i-th float of the input file, <<"d", t, c>>   *)
(* and <<"s", t, c>>: outputs of the batch and of the stateful decoder,    *)
(* <<"zero", 0, 0>>: 0.0).                                                 *)
(***************************************************************************)
EXTENDS Integers, Sequences, FiniteSets, TLC

VARIABLES
    pc,                      \* the statement the run is at; "done", "failed"
    err,                     \* the statement that raised, "" while none has
    args,                    \* argparse's namespace
    model,                   \* the RADAE object: its parameters and framing
    checkpoint,              \* the dict torch.load returned
    nfloats,                 \* number of floats np.fromfile read
    features_in, nb_features_rounded, features, z, features_hat,
    features_hat_statefull, loss, loss_statefull, loss_delta,
    calls,                   \* the network calls made so far, in order
    stdout,                  \* the lines printed so far
    outFile,                 \* content of the file at args.features_hat
    outFile0                 \* its content when the run started

vars == <<pc, err, args, model, checkpoint, nfloats, features_in,
          nb_features_rounded, features, z, features_hat,
          features_hat_statefull, loss, loss_statefull, loss_delta,
          calls, stdout, outFile, outFile0>>

----------------------------------------------------------------------------
(* Bounds of the model *)

\* most frames an input feature file holds
MaxFrames == 3
\* largest modem-frame granularity (in 10 ms frames) a model rounds to
MaxGran == 2

----------------------------------------------------------------------------
(* Program constants *)

nb_total_features == 36
num_features == 20
num_used_features == 20
\* the slice [:,:,:16] of the zero tensor that is appended
PadChannels == 16
\* 0.01 in units of 1e-4
DeltaBound == 100
\* --latent-dim default
DefaultLatentDim == 80

----------------------------------------------------------------------------
(* Floats *)

F(v) == [nan |-> FALSE, v |-> v]
NaN == [nan |-> TRUE, v |-> 0]

\* IEEE comparisons: any comparison with a NaN is false
Lt(a, b) == ~a.nan /\ ~b.nan /\ a.v < b.v
Gt(a, b) == ~a.nan /\ ~b.nan /\ a.v > b.v

\* f"{x:5.3f}": three decimals, i.e. units of 1e-3 (values here are >= 0)
Fmt3(x) == IF x.nan THEN NaN ELSE F((x.v + 5) \div 10)

----------------------------------------------------------------------------
(* Tensors *)

Zero == <<"zero", 0, 0>>
NoTensor == <<>>

Min(a, b) == IF a < b THEN a ELSE b
Max(a, b) == IF a > b THEN a ELSE b

\* Python's s[:k] on a sequence of length n keeps this many items
SliceLen(n, k) == IF k >= 0 THEN Min(k, n) ELSE Max(n + k, 0)

\* T[:, :k, :]
SliceFrames(T, k) == SubSeq(T, 1, SliceLen(Len(T), k))

\* T[:, :, :k]
SliceChans(T, k) == [t \in 1..Len(T) |-> SubSeq(T[t], 1, SliceLen(Len(T[t]), k))]

\* torch.zeros_like(T)
ZerosLike(T) == [t \in 1..Len(T) |-> [c \in 1..Len(T[t]) |-> Zero]]

\* torch.cat([A, B], dim=-1)
Cat(A, B) == [t \in 1..Len(A) |-> A[t] \o B[t]]

\* T.flatten(): row-major
RECURSIVE Flatten(_)
Flatten(T) == IF T = <<>> THEN <<>> ELSE Head(T) \o Flatten(Tail(T))

\* (variant: a trailing partial frame is dropped silently)
ReshapeRaisesNever(a) == FALSE

\* np.reshape(a, (1, -1, nb_total_features)) raises for a size that is no
\* multiple of nb_total_features; an empty array becomes shape (1, 0, 36)
ReshapeRaises(a) == Len(a) % nb_total_features /= 0

Reshape(a) ==
    [t \in 1..(Len(a) \div nb_total_features) |->
        [c \in 1..nb_total_features |-> a[(t - 1) * nb_total_features + c]]]

\* (variant: the frame truncation is forgotten)
UsedFeaturesAllFrames(T, R) == SliceChans(T, num_used_features)

\* the rows kept of the reshaped input: features_in[:,:R,:][:, :, :num_used_features]
UsedFeatures(T, R) == SliceChans(SliceFrames(T, R), num_used_features)

\* (variant: the zero tensor is appended whole)
PadOutputUnsliced(x) == Cat(x, ZerosLike(x))

\* cat([x, zeros_like(x)[:,:,:16]], dim=-1)
PadOutput(x) == Cat(x, SliceChans(ZerosLike(x), PadChannels))

----------------------------------------------------------------------------
(* The model library (radae.RADAE, distortion_loss), as far as the script   *)
(* relies on it                                                            *)

ModelKeys == {<<"core_encoder", "w">>, <<"core_decoder", "w">>,
              <<"core_decoder_statefull", "w">>}

\* a parameter tensor: where its numbers come from (a random initialisation
\* or the checkpoint's entry for a key) and the latent dimension its shape
\* was built for
Param(src, key, dim) == [src |-> src, key |-> key, dim |-> dim]

\* num_10ms_times_steps_rounded_to_modem_frames
Rounded(G, n) == (n \div G) * G

\* module.state_dict() of a sub-module
StateDict(params, m) ==
    [n \in {k[2] : k \in {kk \in DOMAIN params : kk[1] = m}} |-> params[<<m, n>>]]

\* load_state_dict(sd, strict=False) raises only for a size mismatch of a key
\* both sides have
LoadRaises(params, sd) ==
    \E k \in DOMAIN sd \cap DOMAIN params : sd[k].dim /= params[k].dim

\* load_state_dict(sd, strict=False): keys of sd the model has are copied, other
\* keys of sd are ignored, parameters sd lacks keep their initial values
Load(params, sd) ==
    [k \in DOMAIN params |-> IF k \in DOMAIN sd THEN sd[k] ELSE params[k]]

\* (variant: the copy is left out)
CopyDecoderNone(params) == params

\* core_decoder_statefull.load_state_dict(core_decoder.state_dict())
CopyDecoder(params) ==
    LET sd == StateDict(params, "core_decoder")
    IN  [k \in DOMAIN params |->
            IF k[1] = "core_decoder_statefull" /\ k[2] \in DOMAIN sd
            THEN sd[k[2]] ELSE params[k]]

\* output of a decoder: as many frames as the encoder was given, num_features
\* channels
Decoded(tag, zz) ==
    [t \in 1..Len(zz.x) |-> [c \in 1..num_features |-> <<tag, t, c>>]]

----------------------------------------------------------------------------
(* Inputs *)

\* --loss_test: negative, the default 0.0, a positive threshold, nan
LossTests == {F(0 - 3000), F(0), F(3000), NaN}
LatentDims == {DefaultLatentDim, 40}

\* values distortion_loss can return
LossValues == {F(0), F(2500)}
LossStatefullValues == {F(2999), F(3000), F(3001), NaN}
LossDeltaValues == {F(0), F(99), F(100), F(101), NaN}

\* random initialisations of a parameter by the RADAE constructor
InitSources == {"init0", "init1"}

\* key sets of the state_dict of a checkpoint file
CheckpointKeySets ==
    { {<<"core_encoder", "w">>, <<"core_decoder", "w">>},
      {<<"core_encoder", "w">>, <<"core_decoder", "w">>,
       <<"core_decoder_statefull", "w">>},
      {<<"core_encoder", "w">>, <<"core_decoder", "w">>, <<"other", "w">>},
      {<<"core_encoder", "w">>},
      {} }

\* a checkpoint trained with the default latent dimension
CheckpointDict(keys, has) ==
    [has_state_dict |-> has, alias |-> FALSE,
     state_dict |-> [k \in keys |-> Param("ckpt", k, DefaultLatentDim)]]

NoCheckpoint == CheckpointDict({}, FALSE)

\* sizes, in floats, of a feature file: whole frames, or one float over, or
\* one float short of a further frame
FileSizes ==
    {k * nb_total_features + e : k \in 0..MaxFrames, e \in {0, 1, nb_total_features - 1}}

FileContent(n) == [i \in 1..n |-> <<"in", i, 0>>]

OldFile == <<<<"old", 0, 0>>>>
OutFiles == {<<>>, OldFile}

----------------------------------------------------------------------------
(* Output lines *)

Line(kind, n, vals) == [kind |-> kind, n |-> n, vals |-> vals]

\* print(f"Processing: {nb_features_rounded} feature vectors")
ProcessingLine(R) == Line("Processing", R, <<>>)

\* (variant: the first two losses are printed the other way round)
LossLineSwapped(l, ls, ld) == Line("loss", 0, <<Fmt3(ls), Fmt3(l), Fmt3(ld)>>)

\* print(f"loss: {loss:5.3f} {loss_statefull:5.3f} {loss_delta:5.3f}")
LossLine(l, ls, ld) == Line("loss", 0, <<Fmt3(l), Fmt3(ls), Fmt3(ld)>>)

\* (variant: any nonzero threshold enables the check)
CheckEnabledNonZero(thr) == ~thr.nan /\ thr.v /= 0

\* if args.loss_test > 0.0:
CheckEnabled(thr) == Gt(thr, F(0))

\* (variant: the delta bound is not strict)
VerdictKindNonStrict(ls, ld, thr) ==
    IF Lt(ls, thr) /\ ~ld.nan /\ ld.v <= DeltaBound THEN "PASS" ELSE "FAIL"

\* if loss_statefull < args.loss_test and loss_delta < 0.01: PASS else FAIL
VerdictKind(ls, ld, thr) ==
    IF Lt(ls, thr) /\ Lt(ld, F(DeltaBound)) THEN "PASS" ELSE "FAIL"

\* (variant: the run stops at a FAIL)
AfterVerdictStopOnFail(kind) == IF kind = "FAIL" THEN "done" ELSE "pad"

\* the statement that follows the verdict, whatever it was
AfterVerdict(kind) == "pad"

\* a distortion_loss call: the two script variables it compares, and its value
LossOf(a, b, val) == [a |-> a, b |-> b, val |-> val]
NoLoss == LossOf("", "", F(0))

Call(fn, params, x) == [fn |-> fn, params |-> params, x |-> x]

----------------------------------------------------------------------------
(* The run *)

NoZ == [params |-> <<>>, x |-> NoTensor]

Init ==
    /\ pc = "parse_args"
    /\ err = ""
    /\ args = [loss_test |-> F(0), latent_dim |-> 0]
    /\ model = [params |-> <<>>, G |-> 0]
    /\ checkpoint = NoCheckpoint
    /\ nfloats = 0
    /\ features_in = NoTensor
    /\ nb_features_rounded = 0
    /\ features = NoTensor
    /\ z = NoZ
    /\ features_hat = NoTensor
    /\ features_hat_statefull = NoTensor
    /\ loss = NoLoss
    /\ loss_statefull = NoLoss
    /\ loss_delta = NoLoss
    /\ calls = <<>>
    /\ stdout = <<>>
    /\ outFile0 \in OutFiles
    /\ outFile = outFile0

\* an uncaught exception at statement s: the process ends there
Raise(s) == pc' = "failed" /\ err' = s

\* parser.parse_args(): exits on malformed arguments
ParseArgs ==
    /\ pc = "parse_args"
    /\ \/ /\ Raise("parse_args")
          /\ UNCHANGED args
       \/ \E lt \in LossTests, ld \in LatentDims :
            /\ args' = [loss_test |-> lt, latent_dim |-> ld]
            /\ pc' = "construct"
            /\ UNCHANGED err
    /\ UNCHANGED <<model, checkpoint, nfloats, features_in, nb_features_rounded,
                   features, z, features_hat, features_hat_statefull, loss,
                   loss_statefull, loss_delta, calls, stdout, outFile, outFile0>>

\* model = RADAE(num_features, latent_dim, 100.0): every parameter starts at a
\* random initialisation
Construct ==
    /\ pc = "construct"
    /\ \E G \in 1..MaxGran, sd \in InitSources, ss \in InitSources :
         model' = [G |-> G,
                   params |-> [k \in ModelKeys |->
                       Param(CASE k[1] = "core_decoder" -> sd
                               [] k[1] = "core_decoder_statefull" -> ss
                               [] OTHER -> "init0",
                             k, args.latent_dim)]]
    /\ pc' = "torch_load"
    /\ UNCHANGED <<err, args, checkpoint, nfloats, features_in, nb_features_rounded,
                   features, z, features_hat, features_hat_statefull, loss,
                   loss_statefull, loss_delta, calls, stdout, outFile, outFile0>>

\* checkpoint = torch.load(args.model_name, map_location='cpu')
TorchLoad ==
    /\ pc = "torch_load"
    /\ \/ /\ Raise("torch_load")
          /\ UNCHANGED checkpoint
       \/ \E keys \in CheckpointKeySets, has \in BOOLEAN :
            /\ has \/ keys = {}
            /\ checkpoint' = CheckpointDict(keys, has)
            /\ pc' = "load_state_dict"
            /\ UNCHANGED err
    /\ UNCHANGED <<args, model, nfloats, features_in, nb_features_rounded,
                   features, z, features_hat, features_hat_statefull, loss,
                   loss_statefull, loss_delta, calls, stdout, outFile, outFile0>>

\* model.load_state_dict(checkpoint['state_dict'], strict=False)
\* checkpoint['state_dict'] = model.state_dict()
LoadStateDict ==
    /\ pc = "load_state_dict"
    /\ IF ~checkpoint.has_state_dict \/ LoadRaises(model.params, checkpoint.state_dict)
       THEN /\ Raise("load_state_dict")
            /\ UNCHANGED <<model, checkpoint>>
       ELSE /\ model' = [model EXCEPT !.params = Load(@, checkpoint.state_dict)]
            /\ checkpoint' = [checkpoint EXCEPT !.alias = TRUE]
            /\ pc' = "copy_weights"
            /\ UNCHANGED err
    /\ UNCHANGED <<args, nfloats, features_in, nb_features_rounded,
                   features, z, features_hat, features_hat_statefull, loss,
                   loss_statefull, loss_delta, calls, stdout, outFile, outFile0>>

\* model.core_decoder_statefull.load_state_dict(model.core_decoder.state_dict())
CopyWeights ==
    /\ pc = "copy_weights"
    /\ model' = [model EXCEPT !.params = CopyDecoder(@)]
    /\ pc' = "read_features"
    /\ UNCHANGED <<err, args, checkpoint, nfloats, features_in, nb_features_rounded,
                   features, z, features_hat, features_hat_statefull, loss,
                   loss_statefull, loss_delta, calls, stdout, outFile, outFile0>>

\* features_in = np.reshape(np.fromfile(feature_file, dtype=np.float32),
\*                          (1, -1, nb_total_features))
ReadFeatures ==
    /\ pc = "read_features"
    /\ \/ /\ Raise("fromfile")
          /\ UNCHANGED <<nfloats, features_in>>
       \/ \E n \in FileSizes :
            LET a == FileContent(n)
            IN  /\ nfloats' = n
                /\ IF ReshapeRaises(a)
                   THEN /\ Raise("reshape")
                        /\ UNCHANGED features_in
                   ELSE /\ features_in' = Reshape(a)
                        /\ pc' = "select"
                        /\ UNCHANGED err
    /\ UNCHANGED <<args, model, checkpoint, nb_features_rounded,
                   features, z, features_hat, features_hat_statefull, loss,
                   loss_statefull, loss_delta, calls, stdout, outFile, outFile0>>

\* nb_features_rounded = model.num_10ms_times_steps_rounded_to_modem_frames(...)
\* features = features_in[:,:nb_features_rounded,:][:, :, :num_used_features]
\* print(f"Processing: {nb_features_rounded} feature vectors")
SelectFeatures ==
    /\ pc = "select"
    /\ LET R == Rounded(model.G, Len(features_in))
       IN  /\ nb_features_rounded' = R
           /\ features' = UsedFeatures(features_in, R)
           /\ stdout' = Append(stdout, ProcessingLine(R))
    /\ pc' = "encode"
    /\ UNCHANGED <<err, args, model, checkpoint, nfloats, features_in,
                   z, features_hat, features_hat_statefull, loss,
                   loss_statefull, loss_delta, calls, outFile, outFile0>>

\* model.to(device); features = features.to(device)
\* z = model.core_encoder(features)
\* (whether the network accepts an empty sequence is the library's business:
\* either outcome)
Encode ==
    /\ pc = "encode"
    /\ \/ /\ features = <<>>
          /\ Raise("core_encoder")
          /\ UNCHANGED <<z, calls>>
       \/ LET p == StateDict(model.params, "core_encoder")
          IN  /\ z' = [params |-> p, x |-> features]
              /\ calls' = Append(calls, Call("core_encoder", p, features))
              /\ pc' = "decode"
              /\ UNCHANGED err
    /\ UNCHANGED <<args, model, checkpoint, nfloats, features_in,
                   nb_features_rounded, features, features_hat,
                   features_hat_statefull, loss, loss_statefull, loss_delta,
                   stdout, outFile, outFile0>>

\* the latent sequence both decoders are given
DecoderInput == z

\* features_hat = model.core_decoder(z)
Decode ==
    /\ pc = "decode"
    /\ LET p == StateDict(model.params, "core_decoder")
       IN  /\ features_hat' = Decoded("d", DecoderInput)
           /\ calls' = Append(calls, Call("core_decoder", p, DecoderInput))
    /\ pc' = "decode_statefull"
    /\ UNCHANGED <<err, args, model, checkpoint, nfloats, features_in,
                   nb_features_rounded, features, z, features_hat_statefull,
                   loss, loss_statefull, loss_delta, stdout, outFile, outFile0>>

\* features_hat_statefull = model.core_decoder_statefull(z)
DecodeStatefull ==
    /\ pc = "decode_statefull"
    /\ LET p == StateDict(model.params, "core_decoder_statefull")
       IN  /\ features_hat_statefull' = Decoded("s", DecoderInput)
           /\ calls' = Append(calls, Call("core_decoder_statefull", p, DecoderInput))
    /\ pc' = "losses"
    /\ UNCHANGED <<err, args, model, checkpoint, nfloats, features_in,
                   nb_features_rounded, features, z, features_hat,
                   loss, loss_statefull, loss_delta, stdout, outFile, outFile0>>

\* the three distortion_loss calls and the loss line
Losses ==
    /\ pc = "losses"
    /\ \E l \in LossValues, ls \in LossStatefullValues, ld \in LossDeltaValues :
         /\ loss' = LossOf("features", "features_hat", l)
         /\ loss_statefull' = LossOf("features", "features_hat_statefull", ls)
         /\ loss_delta' = LossOf("features_hat", "features_hat_statefull", ld)
         /\ stdout' = Append(stdout, LossLine(l, ls, ld))
    /\ pc' = "loss_test"
    /\ UNCHANGED <<err, args, model, checkpoint, nfloats, features_in,
                   nb_features_rounded, features, z, features_hat,
                   features_hat_statefull, calls, outFile, outFile0>>

\* if args.loss_test > 0.0: print PASS or FAIL
LossTest ==
    /\ pc = "loss_test"
    /\ IF CheckEnabled(args.loss_test)
       THEN LET kind == VerdictKind(loss_statefull.val, loss_delta.val, args.loss_test)
            IN  /\ stdout' = Append(stdout, Line(kind, 0, <<>>))
                /\ pc' = AfterVerdict(kind)
       ELSE /\ UNCHANGED stdout
            /\ pc' = "pad"
    /\ UNCHANGED <<err, args, model, checkpoint, nfloats, features_in,
                   nb_features_rounded, features, z, features_hat,
                   features_hat_statefull, loss, loss_statefull, loss_delta,
                   calls, outFile, outFile0>>

\* features_hat_statefull = torch.cat([..., zeros_like(...)[:,:,:16]], dim=-1)
\* (the flatten() of the next line is done where the file is written)
Pad ==
    /\ pc = "pad"
    /\ features_hat_statefull' = PadOutput(features_hat_statefull)
    /\ pc' = "tofile"
    /\ UNCHANGED <<err, args, model, checkpoint, nfloats, features_in,
                   nb_features_rounded, features, z, features_hat,
                   loss, loss_statefull, loss_delta,
                   calls, stdout, outFile, outFile0>>

\* features_hat_statefull.flatten().astype('float32').tofile(args.features_hat):
\* the file cannot be opened (left as it was), or is opened (truncated) and the
\* write fails, or is written
ToFile ==
    /\ pc = "tofile"
    /\ \/ /\ Raise("tofile")
          /\ outFile' \in {outFile, <<>>}
       \/ /\ outFile' = Flatten(features_hat_statefull)
          /\ pc' = "done"
          /\ UNCHANGED err
    /\ UNCHANGED <<args, model, checkpoint, nfloats, features_in,
                   nb_features_rounded, features, z, features_hat,
                   features_hat_statefull, loss, loss_statefull, loss_delta,
                   calls, stdout, outFile0>>

Next ==
    \/ ParseArgs
    \/ Construct
    \/ TorchLoad
    \/ LoadStateDict
    \/ CopyWeights
    \/ ReadFeatures
    \/ SelectFeatures
    \/ Encode
    \/ Decode
    \/ DecodeStatefull
    \/ Losses
    \/ LossTest
    \/ Pad
    \/ ToFile

Spec == Init /\ [][Next]_vars

----------------------------------------------------------------------------
(* Properties *)

IsVerdict(line) == line.kind \in {"PASS", "FAIL"}
NoVerdict == \A i \in 1..Len(stdout) : ~IsVerdict(stdout[i])

\* the run has passed the loss_test statement
PastLossTest ==
    pc \in {"pad", "tofile", "done"} \/ (pc = "failed" /\ err = "tofile")

\* the threshold given is a number above 0
Positive(x) == ~x.nan /\ x.v > 0

\* C1: with a threshold above 0, the loss line is followed by exactly one verdict
\* line, which is PASS exactly when loss_statefull < threshold and
\* loss_delta < 0.01 (both strict), FAIL otherwise, whatever loss is.
C1_VerdictRule ==
    (PastLossTest /\ Positive(args.loss_test)) =>
        /\ Len(stdout) = 3
        /\ stdout[2].kind = "loss"
        /\ ~IsVerdict(stdout[1]) /\ ~IsVerdict(stdout[2])
        /\ IsVerdict(stdout[3])
        /\ stdout[3].kind = "PASS" <=>
              /\ ~loss_statefull.val.nan
              /\ loss_statefull.val.v < args.loss_test.v
              /\ ~loss_delta.val.nan
              /\ loss_delta.val.v < DeltaBound

\* a run whose delta equals 0.01, with a stateful loss below the threshold: FAIL
C1_Witness ==
    /\ pc = "done"
    /\ Positive(args.loss_test)
    /\ loss_delta.val = F(DeltaBound)
    /\ Lt(loss_statefull.val, args.loss_test)
    /\ stdout[3].kind = "FAIL"

\* C2: with a threshold of 0.0 or below, no PASS or FAIL line is ever printed,
\* whatever the losses; a run that ends has printed the Processing line and the
\* loss line, and nothing else.
C2_CheckDisabled ==
    (~args.loss_test.nan /\ args.loss_test.v <= 0) =>
        /\ NoVerdict
        /\ pc = "done" =>
              /\ Len(stdout) = 2
              /\ stdout[1].kind = "Processing"
              /\ stdout[2].kind = "loss"

\* a finished run with a negative threshold and losses that would have passed
C2_Witness ==
    /\ pc = "done"
    /\ args.loss_test.v < 0
    /\ loss_delta.val = F(0)
    /\ ~loss_statefull.val.nan
    /\ Len(stdout) = 2

\* C3: after a successful run the output file holds nb_features_rounded frames of
\* 36 floats; channels 0..19 of frame t are the stateful decoder's output for
\* frame t, channels 20..35 are zero.
C3_OutputFile ==
    pc = "done" =>
        /\ Len(outFile) = nb_features_rounded * 36
        /\ \A t \in 1..nb_features_rounded : \A c \in 1..36 :
              outFile[(t - 1) * 36 + c] = IF c <= 20 THEN <<"s", t, c>> ELSE Zero

\* a finished run on a file whose last frame was cut off by the rounding
C3_Witness ==
    /\ pc = "done"
    /\ nb_features_rounded >= 2
    /\ nfloats \div 36 > nb_features_rounded
    /\ Len(outFile) = nb_features_rounded * 36

\* C6: a run that fails before the write has printed no verdict and has left the
\* output file as it was; a feature file whose size is no multiple of 36 floats
\* and a checkpoint that lacks 'state_dict' or whose shapes do not fit the model
\* are such failures.
C6_FailureBeforeWrite ==
    /\ (pc = "failed" /\ err /= "tofile") => (NoVerdict /\ outFile = outFile0)
    /\ nfloats % 36 /= 0 => (pc = "failed" /\ err = "reshape")
    /\ pc \notin {"parse_args", "construct", "torch_load", "load_state_dict"}
          /\ err \notin {"parse_args", "torch_load", "load_state_dict"} =>
              /\ checkpoint.has_state_dict
              /\ \A k \in DOMAIN checkpoint.state_dict \cap ModelKeys :
                    checkpoint.state_dict[k].dim = args.latent_dim

\* a run stopped by a feature file of more than one frame plus a partial one,
\* with an output file already there
C6_Witness ==
    /\ pc = "failed"
    /\ err = "reshape"
    /\ nfloats > 36
    /\ nfloats % 36 /= 0
    /\ outFile = OldFile

\* the weight copy has been executed
CopyDone ==
    /\ pc \notin {"parse_args", "construct", "torch_load", "load_state_dict",
                  "copy_weights"}
    /\ err \notin {"parse_args", "torch_load", "load_state_dict"}

\* C7: once the copy has been executed the stateful decoder's parameters equal the
\* batch decoder's, which are the checkpoint's where the checkpoint has them;
\* no later step changes the model; both decoders are called with these
\* parameters.
C7_WeightsCopied ==
    /\ [](CopyDone =>
            /\ StateDict(model.params, "core_decoder_statefull")
                   = StateDict(model.params, "core_decoder")
            /\ \A k \in DOMAIN checkpoint.state_dict :
                   k[1] \in {"core_encoder", "core_decoder"} =>
                       model.params[k] = checkpoint.state_dict[k]
            /\ \A i \in 1..Len(calls) :
                   calls[i].params = StateDict(model.params, calls[i].fn))
    /\ [][CopyDone => model' = model]_vars

\* both decoders have run on a checkpoint that had its own entry for the
\* stateful decoder, which the copy has replaced
C7_Witness ==
    /\ Len(calls) = 3
    /\ <<"core_decoder_statefull", "w">> \in DOMAIN checkpoint.state_dict
    /\ calls[3].fn = "core_decoder_statefull"
    /\ calls[3].params["w"].key = <<"core_decoder", "w">>

\* C8: the encoder is given frames 1..R of the input, channels 0..19 of each, in
\* order, where R is the rounded frame count; the Processing line reports R;
\* nothing else of the input reaches a network.
C8_EncoderInput ==
    Len(calls) >= 1 =>
        LET N == nfloats \div 36
            R == Rounded(model.G, N)
            X == [t \in 1..R |-> [c \in 1..20 |-> <<"in", (t - 1) * 36 + c, 0>>]]
        IN  /\ calls[1].fn = "core_encoder"
            /\ calls[1].x = X
            /\ nb_features_rounded = R
            /\ stdout[1] = ProcessingLine(R)
            /\ \A i \in 2..Len(calls) : calls[i].x.x = X

\* the encoder has run on an input the rounding has shortened
C8_Witness ==
    /\ Len(calls) >= 1
    /\ nb_features_rounded > 0
    /\ nfloats \div 36 > nb_features_rounded
    /\ Len(calls[1].x) = nb_features_rounded

\* C9: the encoder is called once; the batch decoder and then the stateful
\* decoder are called with its output z, unchanged; the loss line holds, in this
\* order, the distortion of features against features_hat, of features against
\* features_hat_statefull, and of features_hat against features_hat_statefull.
C9_SameLatent ==
    /\ Cardinality({i \in 1..Len(calls) : calls[i].fn = "core_encoder"}) <= 1
    /\ Len(calls) >= 1 => z = [params |-> calls[1].params, x |-> calls[1].x]
    /\ Len(calls) >= 2 => (calls[2].fn = "core_decoder" /\ calls[2].x = z)
    /\ Len(calls) >= 3 => (calls[3].fn = "core_decoder_statefull" /\ calls[3].x = z)
    /\ Len(calls) <= 3
    /\ Len(stdout) >= 2 =>
          /\ Len(calls) = 3
          /\ <<loss.a, loss.b>> = <<"features", "features_hat">>
          /\ <<loss_statefull.a, loss_statefull.b>>
                 = <<"features", "features_hat_statefull">>
          /\ <<loss_delta.a, loss_delta.b>>
                 = <<"features_hat", "features_hat_statefull">>
          /\ stdout[2].kind = "loss"
          /\ stdout[2].vals = <<Fmt3(loss.val), Fmt3(loss_statefull.val),
                                Fmt3(loss_delta.val)>>

\* the loss line of a run whose first two losses print differently
C9_Witness ==
    /\ Len(stdout) >= 2
    /\ Len(calls) = 3
    /\ Fmt3(loss.val) /= Fmt3(loss_statefull.val)
    /\ calls[2].x = calls[3].x

\* the content the run is to write
ExpectedOutput ==
    [i \in 1..(nb_features_rounded * 36) |->
        IF (i - 1) % 36 < 20 THEN <<"s", ((i - 1) \div 36) + 1, ((i - 1) % 36) + 1>>
        ELSE Zero]

\* C10 as stated: every run that has printed the loss line ends normally, with
\* the output written.
C10_AlwaysEndsNormally ==
    /\ (pc = "failed") => Len(stdout) < 2
    /\ (pc = "done") => outFile = ExpectedOutput

\* C10 amended: a run that has printed the loss line ends normally with the
\* output written, whatever the verdict, unless the write itself fails; the
\* file is not touched before the verdict line (if any is due) is printed.
C10_VerdictInformational ==
    /\ (pc = "failed" /\ Len(stdout) >= 2) => err = "tofile"
    /\ (pc = "done") => (outFile = ExpectedOutput /\ Len(stdout) >= 2)
    /\ outFile /= outFile0 =>
          /\ pc = "done" \/ (pc = "failed" /\ err = "tofile")
          /\ Positive(args.loss_test) => (Len(stdout) = 3 /\ IsVerdict(stdout[3]))

\* a run that printed FAIL and then wrote the output over an older file
C10_Witness ==
    /\ pc = "done"
    /\ Len(stdout) = 3
    /\ stdout[3].kind = "FAIL"
    /\ outFile0 = OldFile
    /\ outFile = ExpectedOutput
    /\ Len(outFile) > 0

====
